---- MODULE Spec2Model ----
(***************************************************************************)
(* Model of UTMConverter (src/custom/src/UTMConverter.cc): the conversion  *)
(* of a timestamped MAVLink telemetry log into a UTM flight-logging file.  *)
(*                                                                         *)
(* One converter instance is modelled over its whole life: construction,   *)
(* convertTelemetryFile calls, destruction.  The source log is supplied by *)
(* the environment record by record while it is read; the LinkManager's    *)
(* channel pool is shared with other clients.  Timestamps are quint64      *)
(* values of TIMESTAMP_SIZE bytes, with a byte of ByteBase values.         *)
(***************************************************************************)
EXTENDS Integers, Sequences, FiniteSets, TLC

(***************************************************************************)
(* Bounds of the model.                                                    *)
(***************************************************************************)
MaxOps      == 4   \* convertTelemetryFile calls plus complete messages
                   \* decoded, over the instance's life
MaxRecords == 2    \* records (timestamp, frame) of a source log that is followed
MaxChannels == 1   \* channels of the LinkManager's pool (besides channel 0)
ByteBase    == 2   \* number of values of one byte (256 in the build)

(***************************************************************************)
(* Program constants.                                                      *)
(***************************************************************************)
TIMESTAMP_SIZE                     == 8
GPS_FIX_TYPE_3D_FIX                == 3
MAVLINK_MSG_ID_GPS_RAW_INT         == 24
MAVLINK_MSG_ID_GLOBAL_POSITION_INT == 33
MAVLINK_MSG_ID_VFR_HUD             == 74

\* quint64 arithmetic is modulo ByteBase^TIMESTAMP_SIZE (2^64 in the build)
UInt64Modulus == ByteBase ^ TIMESTAMP_SIZE

(***************************************************************************)
(* Floating point values: a double is NaN or the exact quotient num/den.   *)
(* The divisions of the code (x / 1E7, x / 1000.0, x / 1000000.0) keep     *)
(* their divisor; equality and order are those of the quotients.           *)
(***************************************************************************)
Double(n, d) == [nan |-> FALSE, num |-> n, den |-> d]

NaN == [nan |-> TRUE, num |-> 0, den |-> 1]

qIsNaN(x) == x.nan

\* operator != of two doubles (true as soon as one of them is NaN)
DoubleNe(a, b) ==
    \/ a.nan
    \/ b.nan
    \/ IF a.den = b.den THEN a.num # b.num
                        ELSE a.num * b.den # b.num * a.den

\* operator <= of two doubles (false as soon as one of them is NaN)
DoubleLe(a, b) ==
    /\ ~a.nan
    /\ ~b.nan
    /\ IF a.den = b.den THEN a.num <= b.num
                        ELSE a.num * b.den <= b.num * a.den

DoubleIsZero(a) == ~a.nan /\ a.num = 0

(***************************************************************************)
(* Inputs: the decoded messages and the raw timestamps a log can carry.    *)
(***************************************************************************)
Message(id, fix, lat, lon, alt, gs) ==
    [msgid |-> id, fix_type |-> fix, lat |-> lat, lon |-> lon, alt |-> alt,
     groundspeed |-> gs]

\* fix_type 2 is a 2D fix; latitude 1 with any longitude gives the sample
\* of the first GLOBAL_POSITION_INT below
GpsRawIntMessages ==
    { Message(MAVLINK_MSG_ID_GPS_RAW_INT, 2, 1, 2, 1, Double(0, 1)),
      Message(MAVLINK_MSG_ID_GPS_RAW_INT, 3, 1, 2, 1, Double(0, 1)) }

GlobalPositionIntMessages ==
    { Message(MAVLINK_MSG_ID_GLOBAL_POSITION_INT, 0, 1, 1, 1, Double(0, 1)),
      Message(MAVLINK_MSG_ID_GLOBAL_POSITION_INT, 0, 1, 2, 1, Double(0, 1)) }

VfrHudMessages ==
    { Message(MAVLINK_MSG_ID_VFR_HUD, 0, 0, 0, 0, NaN),
      Message(MAVLINK_MSG_ID_VFR_HUD, 0, 0, 0, 0, Double(1, 1)) }

\* a message of a kind the switch of _newMavlinkMessage has no case for
OtherMessages ==
    { Message(0, 0, 0, 0, 0, Double(0, 1)) }

Messages ==
    GpsRawIntMessages \cup GlobalPositionIntMessages \cup VfrHudMessages
        \cup OtherMessages

NoMessage == Message(-1, 0, 0, 0, 0, Double(0, 1))

\* TIMESTAMP_SIZE bytes, most significant first, all zero but the first
\* byte (hi) and the last two bytes (mid, lo)
RawBytes(hi, mid, lo) ==
    [i \in 1..TIMESTAMP_SIZE |->
        IF i = 1 THEN hi
        ELSE IF i = TIMESTAMP_SIZE - 1 THEN mid
        ELSE IF i = TIMESTAMP_SIZE THEN lo
        ELSE 0]

RawTimestamps ==
    { RawBytes(0, 0, 0),      \* zero
      RawBytes(0, 0, 1),      \* 1, big-endian
      RawBytes(0, 1, 0),      \* ByteBase, big-endian
      RawBytes(1, 0, 0) }     \* 1, little-endian

\* QDateTime::currentMSecsSinceEpoch() * 1000 at the time of the conversion
CurrentTimestamps == { ByteBase ^ (TIMESTAMP_SIZE - 2) }

(***************************************************************************)
(* UTMConverter::_parseTimestamp and the Qt byte-order helpers it uses.    *)
(***************************************************************************)
RECURSIVE qFromBigEndianFrom(_, _)
qFromBigEndianFrom(bytes, i) ==
    IF i > TIMESTAMP_SIZE THEN 0
    ELSE bytes[i] * ByteBase ^ (TIMESTAMP_SIZE - i)
            + qFromBigEndianFrom(bytes, i + 1)

\* the quint64 whose most significant byte is bytes[1]
qFromBigEndian(bytes) == qFromBigEndianFrom(bytes, 1)

\* byte i (1 = most significant) of a quint64
ByteOf(value, i) == (value \div ByteBase ^ (TIMESTAMP_SIZE - i)) % ByteBase

\* the quint64 with the bytes of value in reverse order
qbswap(value) ==
    qFromBigEndian([i \in 1..TIMESTAMP_SIZE |->
                        ByteOf(value, TIMESTAMP_SIZE + 1 - i)])

\* _parseTimestamp swapping also when the timestamp equals the current time
_parseTimestamp_SwapsWhenEqual(bytes, currentTimestamp) ==
    LET timestamp == qFromBigEndian(bytes)
    IN  IF timestamp >= currentTimestamp THEN qbswap(timestamp) ELSE timestamp

\* lines 152-161
_parseTimestamp(bytes, currentTimestamp) ==
    LET timestamp == qFromBigEndian(bytes)
    IN  IF timestamp > currentTimestamp THEN qbswap(timestamp) ELSE timestamp

(***************************************************************************)
(* The interpretation state of the converter object, as a record, and the  *)
(* message handlers as functions from that record to its next value.       *)
(***************************************************************************)
UTM_LogItem(time, lon, lat, alt, speed) ==
    [time |-> time, lon |-> lon, lat |-> lat, alt |-> alt, speed |-> speed]

\* _compareItem as it would be if the elapsed time were compared as well
_compareItem_WithTime(logItem1, logItem2) ==
    IF DoubleNe(logItem1.time, logItem2.time) THEN FALSE
    ELSE IF DoubleNe(logItem1.lon, logItem2.lon) THEN FALSE
    ELSE IF DoubleNe(logItem1.lat, logItem2.lat) THEN FALSE
    ELSE IF DoubleNe(logItem1.alt, logItem2.alt) THEN FALSE
    ELSE IF DoubleNe(logItem1.speed, logItem2.speed) THEN FALSE
    ELSE TRUE

\* UTMConverter::_compareItem: TRUE when the two items are taken as equal
_compareItem(logItem1, logItem2) ==
    IF DoubleNe(logItem1.lon, logItem2.lon) THEN FALSE
    ELSE IF DoubleNe(logItem1.lat, logItem2.lat) THEN FALSE
    ELSE IF DoubleNe(logItem1.alt, logItem2.alt) THEN FALSE
    ELSE IF DoubleNe(logItem1.speed, logItem2.speed) THEN FALSE
    ELSE TRUE

\* the elapsed time without the subtraction of the start timestamp
ElapsedSeconds_Absolute(self) ==
    Double(self._curTimeUSecs % UInt64Modulus, 1000000)

\* (_curTimeUSecs - _startDTG) / 1000000.0, the difference taken in quint64
ElapsedSeconds(self) ==
    Double((self._curTimeUSecs - self._startDTG) % UInt64Modulus, 1000000)

\* the append of the two position handlers: the item is appended when the
\* track is empty or _compareItem rejects the last item
AppendIfNew(logItems, logItem) ==
    IF Len(logItems) > 0
    THEN IF ~_compareItem(logItems[Len(logItems)], logItem)
         THEN Append(logItems, logItem)
         ELSE logItems
    ELSE Append(logItems, logItem)

\* _handleGpsRawInt without the test of the fix type
_handleGpsRawInt_AnyFix(self, message) ==
    LET seen == [self EXCEPT !._gpsRawIntMessageAvailable = TRUE]
    IN  IF ~seen._globalPositionIntMessageAvailable
        THEN LET logItem == UTM_LogItem(ElapsedSeconds(seen),
                                        Double(message.lat, 10000000),
                                        Double(message.lat, 10000000),
                                        Double(message.alt, 1000),
                                        seen._lastSpeed)
             IN  [seen EXCEPT !._logItems = AppendIfNew(@, logItem)]
        ELSE seen

\* _handleGpsRawInt with the longitude taken from the longitude of the fix
_handleGpsRawInt_OwnLongitude(self, message) ==
    LET seen == [self EXCEPT !._gpsRawIntMessageAvailable = TRUE]
    IN  IF ~seen._globalPositionIntMessageAvailable
        THEN IF message.fix_type >= GPS_FIX_TYPE_3D_FIX
             THEN LET logItem == UTM_LogItem(ElapsedSeconds(seen),
                                             Double(message.lon, 10000000),
                                             Double(message.lat, 10000000),
                                             Double(message.alt, 1000),
                                             seen._lastSpeed)
                  IN  [seen EXCEPT !._logItems = AppendIfNew(@, logItem)]
             ELSE seen
        ELSE seen

\* _handleGpsRawInt without the test of _globalPositionIntMessageAvailable
_handleGpsRawInt_IgnoresPriority(self, message) ==
    LET seen == [self EXCEPT !._gpsRawIntMessageAvailable = TRUE]
    IN  IF message.fix_type >= GPS_FIX_TYPE_3D_FIX
        THEN LET logItem == UTM_LogItem(ElapsedSeconds(seen),
                                        Double(message.lat, 10000000),
                                        Double(message.lat, 10000000),
                                        Double(message.alt, 1000),
                                        seen._lastSpeed)
             IN  [seen EXCEPT !._logItems = AppendIfNew(@, logItem)]
        ELSE seen

_handleGpsRawInt(self, message) ==
    LET seen == [self EXCEPT !._gpsRawIntMessageAvailable = TRUE]
    IN  IF ~seen._globalPositionIntMessageAvailable
        THEN IF message.fix_type >= GPS_FIX_TYPE_3D_FIX
             THEN LET logItem == UTM_LogItem(ElapsedSeconds(seen),
                                             Double(message.lat, 10000000),
                                             Double(message.lat, 10000000),
                                             Double(message.alt, 1000),
                                             seen._lastSpeed)
                  IN  [seen EXCEPT !._logItems = AppendIfNew(@, logItem)]
             ELSE seen
        ELSE seen

\* _handleVfrHud without the qIsNaN test
_handleVfrHud_KeepsNaN(self, message) ==
    [self EXCEPT !._lastSpeed = message.groundspeed]

_handleVfrHud(self, message) ==
    [self EXCEPT !._lastSpeed = IF qIsNaN(message.groundspeed)
                                THEN Double(0, 1)
                                ELSE message.groundspeed]

_handleGlobalPositionInt(self, message) ==
    LET seen == [self EXCEPT !._globalPositionIntMessageAvailable = TRUE]
        logItem == UTM_LogItem(ElapsedSeconds(seen),
                               Double(message.lon, 10000000),
                               Double(message.lat, 10000000),
                               Double(message.alt, 1000),
                               seen._lastSpeed)
    IN  [seen EXCEPT !._logItems = AppendIfNew(@, logItem)]

\* _newMavlinkMessage handing every message of another kind to _handleVfrHud
_newMavlinkMessage_DefaultToHud(self, curTimeUSecs, message) ==
    LET started == IF self._startDTG = 0
                   THEN [self EXCEPT !._startDTG = curTimeUSecs]
                   ELSE self
        timed   == [started EXCEPT !._curTimeUSecs = curTimeUSecs]
    IN  IF message.msgid = MAVLINK_MSG_ID_GPS_RAW_INT
            THEN _handleGpsRawInt(timed, message)
        ELSE IF message.msgid = MAVLINK_MSG_ID_GLOBAL_POSITION_INT
            THEN _handleGlobalPositionInt(timed, message)
        ELSE _handleVfrHud(timed, message)

\* _newMavlinkMessage setting the start timestamp after the handlers ran
_newMavlinkMessage_StartSetLast(self, curTimeUSecs, message) ==
    LET timed   == [self EXCEPT !._curTimeUSecs = curTimeUSecs]
        handled == IF message.msgid = MAVLINK_MSG_ID_GPS_RAW_INT
                       THEN _handleGpsRawInt(timed, message)
                   ELSE IF message.msgid = MAVLINK_MSG_ID_GLOBAL_POSITION_INT
                       THEN _handleGlobalPositionInt(timed, message)
                   ELSE IF message.msgid = MAVLINK_MSG_ID_VFR_HUD
                       THEN _handleVfrHud(timed, message)
                   ELSE timed
    IN  IF handled._startDTG = 0
        THEN [handled EXCEPT !._startDTG = curTimeUSecs]
        ELSE handled

_newMavlinkMessage(self, curTimeUSecs, message) ==
    LET started == IF self._startDTG = 0
                   THEN [self EXCEPT !._startDTG = curTimeUSecs]
                   ELSE self
        timed   == [started EXCEPT !._curTimeUSecs = curTimeUSecs]
    IN  IF message.msgid = MAVLINK_MSG_ID_GPS_RAW_INT
            THEN _handleGpsRawInt(timed, message)
        ELSE IF message.msgid = MAVLINK_MSG_ID_GLOBAL_POSITION_INT
            THEN _handleGlobalPositionInt(timed, message)
        ELSE IF message.msgid = MAVLINK_MSG_ID_VFR_HUD
            THEN _handleVfrHud(timed, message)
        ELSE timed

(***************************************************************************)
(* LinkManager's channel pool (the acquireSession / releaseSession of the  *)
(* specification): channel 0 is never handed out, 0 means none available.  *)
(***************************************************************************)
Channels == 1..MaxChannels

_reserveMavlinkChannel(used) ==
    IF Channels \ used = {} THEN 0
    ELSE CHOOSE c \in Channels \ used : \A d \in Channels \ used : c <= d

_freeMavlinkChannel(used, channel) == used \ {channel}

(***************************************************************************)
(* The phases of UTMConverter::convertTelemetryFile as functions.          *)
(***************************************************************************)
\* the reservation repeated in every call
AcquireChannel_EveryCall(mavlinkChannel, used) ==
    _reserveMavlinkChannel(used)

\* lines 64-66: the channel held after the lazy reservation
AcquireChannel(mavlinkChannel, used) ==
    IF mavlinkChannel = 0 THEN _reserveMavlinkChannel(used)
    ELSE mavlinkChannel

ClosedDestination == [open |-> FALSE, exists |-> FALSE, content |-> <<>>]

\* OpenFiles without the close of the source when the destination fails
OpenFiles_SourceLeftOpen(logFile, srcOk, dstOk) ==
    LET reset == IF logFile.open THEN <<"srcReset">> ELSE <<>>
    IN  IF ~srcOk
        THEN [ok |-> FALSE,
              logFile |-> [open |-> FALSE],
              utmLogFile |-> ClosedDestination,
              events |-> reset \o <<"srcOpenFailed">>]
        ELSE IF ~dstOk
        THEN [ok |-> FALSE,
              logFile |-> [open |-> TRUE],
              utmLogFile |-> ClosedDestination,
              events |-> reset \o <<"srcOpen", "dstOpenFailed">>]
        ELSE [ok |-> TRUE,
              logFile |-> [open |-> TRUE],
              utmLogFile |-> [open |-> TRUE, exists |-> TRUE,
                              content |-> <<>>],
              events |-> reset \o <<"srcOpen", "dstOpen">>]

\* lines 72-83: QFile::setFileName closes a file that is still open, then
\* the source and the destination are opened in this order
OpenFiles(logFile, srcOk, dstOk) ==
    LET reset == IF logFile.open THEN <<"srcReset">> ELSE <<>>
    IN  IF ~srcOk
        THEN [ok |-> FALSE,
              logFile |-> [open |-> FALSE],
              utmLogFile |-> ClosedDestination,
              events |-> reset \o <<"srcOpenFailed">>]
        ELSE IF ~dstOk
        THEN [ok |-> FALSE,
              logFile |-> [open |-> FALSE],
              utmLogFile |-> ClosedDestination,
              events |-> reset \o <<"srcOpen", "dstOpenFailed", "srcClose">>]
        ELSE [ok |-> TRUE,
              logFile |-> [open |-> TRUE],
              utmLogFile |-> [open |-> TRUE, exists |-> TRUE,
                              content |-> <<>>],
              events |-> reset \o <<"srcOpen", "dstOpen">>]

\* one write to the destination
Chunk(kind, idx, sep, item, ms) ==
    [kind |-> kind, idx |-> idx, sep |-> sep, item |-> item, ms |-> ms]

NoItem == UTM_LogItem(NaN, NaN, NaN, NaN, NaN)

\* the item lines with a comma after every line, the last one included
ItemLines_CommaAfterEach(logItems) ==
    [i \in 1..Len(logItems) |->
        Chunk("item", i, ",\n", logItems[i], 0)]

\* lines 100-115: one line per item, ",\n" after all but the last
ItemLines(logItems) ==
    [i \in 1..Len(logItems) |->
        Chunk("item", i, IF i < Len(logItems) THEN ",\n" ELSE "\n",
              logItems[i], 0)]

\* WriteTrack leaving the empty destination in place
WriteTrack_KeepsEmptyFile(logItems, startDTG, utmLogFile) ==
    LET written == IF Len(logItems) > 0
                   THEN <<Chunk("kLoggingHeader", 0, "", NoItem, 0)>>
                        \o ItemLines(logItems)
                        \o <<Chunk("kLoggingKeys", 0, "", NoItem, 0),
                             Chunk("logging_start_dtg", 0, "\n", NoItem,
                                   startDTG \div 1000),
                             Chunk("kLoggingFooter", 0, "", NoItem, 0)>>
                   ELSE <<>>
    IN  [utmLogFile |-> [open |-> FALSE,
                         exists |-> utmLogFile.exists,
                         content |-> utmLogFile.content \o written],
         events |-> (IF Len(written) > 0 THEN <<"dstWrite">> ELSE <<>>)
                    \o <<"dstClose">>,
         result |-> "true"]

\* WriteTrack reporting an empty track as a failure
WriteTrack_EmptyIsFailure(logItems, startDTG, utmLogFile) ==
    LET written == IF Len(logItems) > 0
                   THEN <<Chunk("kLoggingHeader", 0, "", NoItem, 0)>>
                        \o ItemLines(logItems)
                        \o <<Chunk("kLoggingKeys", 0, "", NoItem, 0),
                             Chunk("logging_start_dtg", 0, "\n", NoItem,
                                   startDTG \div 1000),
                             Chunk("kLoggingFooter", 0, "", NoItem, 0)>>
                   ELSE <<>>
        removed == Len(logItems) = 0
    IN  [utmLogFile |-> [open |-> FALSE,
                         exists |-> utmLogFile.exists /\ ~removed,
                         content |-> IF removed THEN <<>>
                                     ELSE utmLogFile.content \o written],
         events |-> (IF Len(written) > 0 THEN <<"dstWrite">> ELSE <<>>)
                    \o <<"dstClose">>
                    \o (IF removed THEN <<"dstRemove">> ELSE <<>>),
         result |-> IF removed THEN "false" ELSE "true"]

\* lines 97-130: write, close and, for an empty track, remove
WriteTrack(logItems, startDTG, utmLogFile) ==
    LET written == IF Len(logItems) > 0
                   THEN <<Chunk("kLoggingHeader", 0, "", NoItem, 0)>>
                        \o ItemLines(logItems)
                        \o <<Chunk("kLoggingKeys", 0, "", NoItem, 0),
                             Chunk("logging_start_dtg", 0, "\n", NoItem,
                                   startDTG \div 1000),
                             Chunk("kLoggingFooter", 0, "", NoItem, 0)>>
                   ELSE <<>>
        removed == Len(logItems) = 0
    IN  [utmLogFile |-> [open |-> FALSE,
                         exists |-> utmLogFile.exists /\ ~removed,
                         content |-> IF removed THEN <<>>
                                     ELSE utmLogFile.content \o written],
         events |-> (IF Len(written) > 0 THEN <<"dstWrite">> ELSE <<>>)
                    \o <<"dstClose">>
                    \o (IF removed THEN <<"dstRemove">> ELSE <<>>),
         result |-> "true"]

\* lines 136-149: the timestamp that follows the next complete message, or
\* 0 when the source ends before a message is complete
_readNextMavlinkMessage(messageFound, rawTime, currentTimestamp) ==
    IF messageFound THEN _parseTimestamp(rawTime, currentTimestamp) ELSE 0

\* lines 52-58: the channel the destructor frees (0: none)
DestructorFrees(mavlinkChannel) == mavlinkChannel

(***************************************************************************)
(* State.                                                                  *)
(***************************************************************************)
VARIABLES
    \* members of the converter object
    _curTimeUSecs, _startDTG, _lastSpeed,
    _gpsRawIntMessageAvailable, _globalPositionIntMessageAvailable,
    _mavlinkChannel, _logItems, _logFile,
    \* locals of convertTelemetryFile and its position
    pc, _utmLogFile, message, result,
    \* the LinkManager's reserved channels
    channelsUsed,
    \* history of the run
    nConverts,      \* convertTelemetryFile calls started
    nDecoded,       \* complete messages decoded, over all calls
    nInterp,        \* messages passed to _newMavlinkMessage, over all calls
    callInterp,     \* messages passed to _newMavlinkMessage in this call
    firstTs,        \* timestamp of the first message interpreted in this call
    firstSampleAt,  \* value of nInterp when _logItems[1] was appended
    lastTs,         \* timestamp of the last message interpreted
    tsOrdered,      \* interpreted timestamps were non-decreasing so far
    entry,          \* interpretation state on entry of the current call
    call,           \* what the environment offered to the current call
    events,         \* file and channel operations of the current call
    acquired,       \* channels reserved by the converter, in order
    released,       \* channels freed by the converter, in order
    \* the source log when its content is followed (SpecLog)
    srcFile,        \* the elements of the source log
    srcPos,         \* the element the next read of _logFile starts at
    interpreted,    \* [pos, ts] of the messages interpreted in this call
    tsFed,          \* a timestamp went to mavlink_parse_char in this call
    \* one application of _parseTimestamp (SpecParse)
    parse

convVars == <<_curTimeUSecs, _startDTG, _lastSpeed,
              _gpsRawIntMessageAvailable, _globalPositionIntMessageAvailable,
              _mavlinkChannel, _logItems, _logFile,
              pc, _utmLogFile, message, result, channelsUsed,
              nConverts, nDecoded, nInterp, callInterp, firstTs,
              firstSampleAt, lastTs, tsOrdered, entry, call, events,
              acquired, released>>

logVars == <<srcFile, srcPos, interpreted, tsFed>>

vars == <<convVars, logVars, parse>>

\* the interpretation state of the object as one record
Self ==
    [_curTimeUSecs |-> _curTimeUSecs,
     _startDTG |-> _startDTG,
     _lastSpeed |-> _lastSpeed,
     _gpsRawIntMessageAvailable |-> _gpsRawIntMessageAvailable,
     _globalPositionIntMessageAvailable |-> _globalPositionIntMessageAvailable,
     _logItems |-> _logItems]

SetSelf(new) ==
    /\ _curTimeUSecs' = new._curTimeUSecs
    /\ _startDTG' = new._startDTG
    /\ _lastSpeed' = new._lastSpeed
    /\ _gpsRawIntMessageAvailable' = new._gpsRawIntMessageAvailable
    /\ _globalPositionIntMessageAvailable' =
           new._globalPositionIntMessageAvailable
    /\ _logItems' = new._logItems

NoCall == [channel |-> FALSE, srcOk |-> FALSE, dstOk |-> FALSE]

NoParse == [bytes |-> RawBytes(0, 0, 0), now |-> 0, value |-> 0,
            done |-> FALSE]

\* UTMConverter::UTMConverter
Constructed ==
    /\ _curTimeUSecs = 0
    /\ _startDTG = 0
    /\ _lastSpeed = Double(0, 1)
    /\ _gpsRawIntMessageAvailable = FALSE
    /\ _globalPositionIntMessageAvailable = FALSE
    /\ _mavlinkChannel = 0
    /\ _logItems = <<>>
    /\ _logFile = [open |-> FALSE]
    /\ pc = "idle"
    /\ _utmLogFile = ClosedDestination
    /\ message = NoMessage
    /\ result = "none"
    /\ channelsUsed = {}
    /\ nConverts = 0
    /\ nDecoded = 0
    /\ nInterp = 0
    /\ callInterp = 0
    /\ firstTs = 0
    /\ firstSampleAt = 0
    /\ lastTs = 0
    /\ tsOrdered = TRUE
    /\ entry = Self
    /\ call = NoCall
    /\ events = <<>>
    /\ acquired = <<>>
    /\ released = <<>>
    /\ srcFile = <<>>
    /\ srcPos = 1
    /\ interpreted = <<>>
    /\ tsFed = FALSE

Init ==
    /\ Constructed
    /\ parse = NoParse

histVars == <<nInterp, callInterp, firstTs, firstSampleAt, lastTs, tsOrdered>>

(***************************************************************************)
(* convertTelemetryFile, lines 64-85: reserve the channel, open the two    *)
(* files, read the first timestamp.  A source shorter than TIMESTAMP_SIZE  *)
(* bytes makes _parseTimestamp read past the end of the array: rawTime is  *)
(* then whatever lies there.                                               *)
(***************************************************************************)
convertTelemetryFile_Open(srcOk, dstOk, rawTime, currentTimestamp) ==
    /\ pc = "idle"
    /\ nConverts + nDecoded < MaxOps
    /\ nConverts' = nConverts + 1
    /\ LET channel == AcquireChannel(_mavlinkChannel, channelsUsed)
           reserved == _mavlinkChannel = 0 /\ channel # 0
           files == OpenFiles(_logFile, srcOk, dstOk)
       IN  /\ _mavlinkChannel' = channel
           /\ channelsUsed' = IF reserved THEN channelsUsed \cup {channel}
                              ELSE channelsUsed
           /\ acquired' = IF reserved THEN Append(acquired, channel)
                          ELSE acquired
           /\ call' = [channel |-> channel # 0, srcOk |-> srcOk,
                       dstOk |-> dstOk]
           /\ IF channel = 0
              THEN /\ events' = <<"reserveFailed">>
                   /\ result' = "false"
                   /\ pc' = "idle"
                   /\ UNCHANGED <<_logFile, _utmLogFile, _curTimeUSecs>>
              ELSE /\ _logFile' = files.logFile
                   /\ _utmLogFile' = files.utmLogFile
                   /\ IF files.ok
                      THEN /\ events' = (IF reserved THEN <<"reserve">>
                                         ELSE <<>>)
                                        \o files.events \o <<"srcRead">>
                           /\ _curTimeUSecs' =
                                  _parseTimestamp(rawTime, currentTimestamp)
                           /\ result' = "none"
                           /\ pc' = "loop"
                      ELSE /\ events' = (IF reserved THEN <<"reserve">>
                                         ELSE <<>>) \o files.events
                           /\ result' = "false"
                           /\ pc' = "idle"
                           /\ UNCHANGED _curTimeUSecs
    /\ entry' = Self
    /\ callInterp' = 0
    /\ firstTs' = 0
    /\ message' = NoMessage
    /\ UNCHANGED <<_startDTG, _lastSpeed, _gpsRawIntMessageAvailable,
                   _globalPositionIntMessageAvailable, _logItems,
                   nDecoded, nInterp, firstSampleAt, lastTs, tsOrdered,
                   released>>

ConvertBegin(srcOk, dstOk, rawTime, currentTimestamp) ==
    /\ convertTelemetryFile_Open(srcOk, dstOk, rawTime, currentTimestamp)
    /\ UNCHANGED <<logVars, parse>>

(***************************************************************************)
(* convertTelemetryFile, lines 87-95: one turn of the read loop.  The      *)
(* bytes after a complete message are the next timestamp; when fewer than  *)
(* TIMESTAMP_SIZE bytes are left, _parseTimestamp reads past the end of    *)
(* the array and rawTime is whatever lies there.                           *)
(***************************************************************************)
convertTelemetryFile_Loop(m, rawTime, currentTimestamp) ==
    /\ pc = "loop"
    /\ nConverts + nDecoded < MaxOps
    /\ nDecoded' = nDecoded + 1
    /\ message' = m
    /\ LET nextTimeUSecs ==
               _readNextMavlinkMessage(TRUE, rawTime, currentTimestamp)
           new == _newMavlinkMessage(Self, _curTimeUSecs, m)
       IN  IF nextTimeUSecs = 0
           THEN /\ pc' = "write"
                /\ UNCHANGED <<_curTimeUSecs, _startDTG, _lastSpeed,
                               _gpsRawIntMessageAvailable,
                               _globalPositionIntMessageAvailable, _logItems,
                               histVars>>
           ELSE /\ pc' = "loop"
                /\ SetSelf([new EXCEPT !._curTimeUSecs = nextTimeUSecs])
                /\ nInterp' = nInterp + 1
                /\ callInterp' = callInterp + 1
                /\ firstTs' = IF callInterp = 0 THEN _curTimeUSecs
                              ELSE firstTs
                /\ firstSampleAt' =
                       IF Len(_logItems) = 0 /\ Len(new._logItems) > 0
                       THEN nInterp + 1 ELSE firstSampleAt
                /\ lastTs' = _curTimeUSecs
                /\ tsOrdered' = (tsOrdered
                                 /\ (nInterp = 0 \/ lastTs <= _curTimeUSecs))
    /\ UNCHANGED <<_mavlinkChannel, _logFile, _utmLogFile, result,
                   channelsUsed, nConverts, entry, call, events, acquired,
                   released>>

ReadMessage(m, rawTime, currentTimestamp) ==
    /\ convertTelemetryFile_Loop(m, rawTime, currentTimestamp)
    /\ UNCHANGED <<logVars, parse>>

\* the source ends before another message is complete
convertTelemetryFile_LoopEnd ==
    /\ pc = "loop"
    /\ _readNextMavlinkMessage(FALSE, RawBytes(0, 0, 0), 0) = 0
    /\ pc' = "write"
    /\ UNCHANGED <<_curTimeUSecs, _startDTG, _lastSpeed,
                   _gpsRawIntMessageAvailable,
                   _globalPositionIntMessageAvailable, _mavlinkChannel,
                   _logItems, _logFile, _utmLogFile, message, result,
                   channelsUsed, nConverts, nDecoded, histVars, entry, call,
                   events, acquired, released>>

ReadEnd ==
    /\ convertTelemetryFile_LoopEnd
    /\ UNCHANGED <<logVars, parse>>

(***************************************************************************)
(* convertTelemetryFile, lines 96-131: write the destination and return.   *)
(***************************************************************************)
convertTelemetryFile_Write ==
    /\ pc = "write"
    /\ LET out == WriteTrack(_logItems, _startDTG, _utmLogFile)
       IN  /\ _utmLogFile' = out.utmLogFile
           /\ events' = events \o out.events
           /\ result' = out.result
    /\ pc' = "idle"
    /\ message' = NoMessage
    /\ UNCHANGED <<_curTimeUSecs, _startDTG, _lastSpeed,
                   _gpsRawIntMessageAvailable,
                   _globalPositionIntMessageAvailable, _mavlinkChannel,
                   _logItems, _logFile, channelsUsed, nConverts, nDecoded,
                   histVars, entry, call, acquired, released>>

WriteAndReturn ==
    /\ convertTelemetryFile_Write
    /\ UNCHANGED <<logVars, parse>>

(***************************************************************************)
(* UTMConverter::~UTMConverter; the QFile member closes with the object.   *)
(***************************************************************************)
Destroy ==
    /\ pc = "idle"
    /\ pc' = "destroyed"
    /\ LET channel == DestructorFrees(_mavlinkChannel)
       IN  /\ channelsUsed' = IF channel # 0
                              THEN _freeMavlinkChannel(channelsUsed, channel)
                              ELSE channelsUsed
           /\ released' = IF channel # 0 THEN Append(released, channel)
                          ELSE released
    /\ _mavlinkChannel' = 0
    /\ _logFile' = [open |-> FALSE]
    /\ UNCHANGED <<_curTimeUSecs, _startDTG, _lastSpeed,
                   _gpsRawIntMessageAvailable,
                   _globalPositionIntMessageAvailable, _logItems,
                   _utmLogFile, message, result, nConverts, nDecoded,
                   histVars, entry, call, events, acquired, logVars, parse>>

(***************************************************************************)
(* Other clients of the LinkManager reserve and free channels between the  *)
(* calls of the converter (everything runs on one thread).                 *)
(***************************************************************************)
OtherReserve ==
    /\ pc = "idle"
    /\ _reserveMavlinkChannel(channelsUsed) # 0
    /\ channelsUsed' = channelsUsed \cup {_reserveMavlinkChannel(channelsUsed)}
    /\ UNCHANGED <<_curTimeUSecs, _startDTG, _lastSpeed,
                   _gpsRawIntMessageAvailable,
                   _globalPositionIntMessageAvailable, _mavlinkChannel,
                   _logItems, _logFile, pc, _utmLogFile, message, result,
                   nConverts, nDecoded, histVars, entry, call, events,
                   acquired, released, logVars, parse>>

OtherFree(channel) ==
    /\ pc = "idle"
    /\ channel \in channelsUsed
    /\ channel # _mavlinkChannel
    /\ channelsUsed' = _freeMavlinkChannel(channelsUsed, channel)
    /\ UNCHANGED <<_curTimeUSecs, _startDTG, _lastSpeed,
                   _gpsRawIntMessageAvailable,
                   _globalPositionIntMessageAvailable, _mavlinkChannel,
                   _logItems, _logFile, pc, _utmLogFile, message, result,
                   nConverts, nDecoded, histVars, entry, call, events,
                   acquired, released, logVars, parse>>

Next ==
    \/ \E srcOk \in BOOLEAN, dstOk \in BOOLEAN, rawTime \in RawTimestamps,
          currentTimestamp \in CurrentTimestamps :
            ConvertBegin(srcOk, dstOk, rawTime, currentTimestamp)
    \/ \E m \in Messages, rawTime \in RawTimestamps,
          currentTimestamp \in CurrentTimestamps :
            ReadMessage(m, rawTime, currentTimestamp)
    \/ ReadEnd
    \/ WriteAndReturn
    \/ Destroy
    \/ OtherReserve
    \/ \E channel \in Channels : OtherFree(channel)

Spec == Init /\ [][Next]_vars

(***************************************************************************)
(* The read loop on a source log whose content is followed.  A log is a    *)
(* sequence of elements: TIMESTAMP_SIZE bytes of timestamp, then a frame,  *)
(* and so on, cut after any element.  mavlink_parse_char reports a message *)
(* at the last byte of a frame that holds one and at no byte of a corrupt  *)
(* frame or of a timestamp.                                                *)
(***************************************************************************)
TimestampElement(raw) ==
    [kind |-> "timestamp", raw |-> raw, msg |-> NoMessage]

MessageElement(m) ==
    [kind |-> "message", raw |-> RawBytes(0, 0, 0), msg |-> m]

CorruptElement ==
    [kind |-> "corrupt", raw |-> RawBytes(0, 0, 0), msg |-> NoMessage]

LogTimestamps ==
    { TimestampElement(RawBytes(0, 0, 0)),
      TimestampElement(RawBytes(0, 0, 1)),
      TimestampElement(RawBytes(0, 1, 0)) }

LogFrames ==
    { MessageElement(Message(MAVLINK_MSG_ID_GLOBAL_POSITION_INT, 0, 1, 1, 1,
                             Double(0, 1))),
      CorruptElement }

RECURSIVE LogFilesOfLen(_)
LogFilesOfLen(n) ==
    IF n = 0 THEN { <<>> }
    ELSE { Append(file, element) :
               file \in LogFilesOfLen(n - 1),
               element \in (IF n % 2 = 1 THEN LogTimestamps ELSE LogFrames) }

LogFiles == UNION { LogFilesOfLen(n) : n \in 0..(2 * MaxRecords + 1) }

\* lines 140-142: the element at whose last byte mavlink_parse_char reports
\* a message when the bytes from element pos on are fed to it one by one; 0
\* when getChar fails first
NextMessageAt(file, pos) ==
    LET found == { p \in pos..Len(file) : file[p].kind = "message" }
    IN  IF found = {} THEN 0
        ELSE CHOOSE p \in found : \A q \in found : p <= q

\* line 84, line 144: the arrays _parseTimestamp can see after
\* _logFile.read(TIMESTAMP_SIZE) at element pos; at the end of the file the
\* array is short and line 155 reads past its end
ReadTimestampAt(file, pos) ==
    IF pos <= Len(file) THEN { file[pos].raw } ELSE RawTimestamps

\* the position of _logFile left where the message was found
PosAfterMessage_Rewinds(file, p) == p

\* lines 140-144: the position of _logFile after the message at element p
\* and the read of the timestamp that follows it
PosAfterMessage(file, p) ==
    IF p + 1 <= Len(file) THEN p + 2 ELSE p + 1

\* a call whose source, of content file, and whose destination open
LogBegin(file, currentTimestamp) ==
    /\ nConverts + nDecoded + MaxRecords < MaxOps
    /\ \E rawTime \in ReadTimestampAt(file, 1) :
           convertTelemetryFile_Open(TRUE, TRUE, rawTime, currentTimestamp)
    /\ srcFile' = file
    /\ srcPos' = IF Len(file) >= 1 THEN 2 ELSE 1
    /\ interpreted' = <<>>
    /\ tsFed' = FALSE
    /\ UNCHANGED parse

LogRead(currentTimestamp) ==
    /\ pc = "loop"
    /\ LET p == NextMessageAt(srcFile, srcPos)
       IN  /\ p # 0
           /\ \E rawTime \in ReadTimestampAt(srcFile, p + 1) :
                  convertTelemetryFile_Loop(srcFile[p].msg, rawTime,
                                            currentTimestamp)
           /\ srcPos' = PosAfterMessage(srcFile, p)
           /\ tsFed' = (tsFed \/ \E q \in srcPos..(p - 1) :
                                     srcFile[q].kind = "timestamp")
           /\ interpreted' =
                  IF nInterp' = nInterp + 1
                  THEN Append(interpreted, [pos |-> p, ts |-> _curTimeUSecs])
                  ELSE interpreted
    /\ UNCHANGED <<srcFile, parse>>

LogReadEnd ==
    /\ pc = "loop"
    /\ NextMessageAt(srcFile, srcPos) = 0
    /\ convertTelemetryFile_LoopEnd
    /\ srcPos' = Len(srcFile) + 1
    /\ tsFed' = (tsFed \/ \E q \in srcPos..Len(srcFile) :
                              srcFile[q].kind = "timestamp")
    /\ UNCHANGED <<srcFile, interpreted, parse>>

LogReadAny ==
    \E currentTimestamp \in CurrentTimestamps : LogRead(currentTimestamp)

NextLog ==
    \/ \E file \in LogFiles, currentTimestamp \in CurrentTimestamps :
            LogBegin(file, currentTimestamp)
    \/ LogReadAny
    \/ LogReadEnd
    \/ WriteAndReturn

\* convertTelemetryFile runs on the caller's thread without waiting for
\* anything: once called it takes its next step
SpecLog ==
    /\ Init
    /\ [][NextLog]_vars
    /\ WF_vars(LogReadAny)
    /\ WF_vars(LogReadEnd)
    /\ WF_vars(WriteAndReturn)

(***************************************************************************)
(* _parseTimestamp on its own: every array of TIMESTAMP_SIZE bytes and a   *)
(* choice of current times below, between and above the values.            *)
(***************************************************************************)
ParseBytes == [1..TIMESTAMP_SIZE -> 0..(ByteBase - 1)]

ParseCurrentTimestamps ==
    { 0, ByteBase ^ (TIMESTAMP_SIZE \div 2), ByteBase ^ (TIMESTAMP_SIZE - 2),
      UInt64Modulus - 1 }

InitParse ==
    /\ Constructed
    /\ parse \in [bytes : ParseBytes, now : ParseCurrentTimestamps,
                   value : {0}, done : {FALSE}]

ParseTimestamp ==
    /\ ~parse.done
    /\ parse' = [parse EXCEPT !.value = _parseTimestamp(parse.bytes, parse.now),
                              !.done = TRUE]
    /\ UNCHANGED <<convVars, logVars>>

NextParse == ParseTimestamp

SpecParse == InitParse /\ [][NextParse]_vars

(***************************************************************************)
(* Properties.                                                             *)
(***************************************************************************)
Happened(e) == \E i \in DOMAIN events : events[i] = e

\* event a occurs in the current call and event b occurs after it
HappenedBefore(a, b) ==
    \E i \in DOMAIN events, j \in DOMAIN events :
        i < j /\ events[i] = a /\ events[j] = b

\* this step passed the message now in `message' to _newMavlinkMessage
Interpreting == nInterp' = nInterp + 1

LastItem == _logItems[Len(_logItems)]

\* the two items agree on lon, lat, alt and speed
SamePositionAndSpeed(a, b) ==
    /\ ~DoubleNe(a.lon, b.lon)
    /\ ~DoubleNe(a.lat, b.lat)
    /\ ~DoubleNe(a.alt, b.alt)
    /\ ~DoubleNe(a.speed, b.speed)

\* C1: once _globalPositionIntMessageAvailable is true it stays true, and
\* from then on a step that interprets a GPS_RAW_INT message leaves
\* _logItems as it was, whatever the fix type and position of the message.
C1_GlobalPositionSilencesGpsRaw ==
    [][/\ _globalPositionIntMessageAvailable
              => _globalPositionIntMessageAvailable'
       /\ (/\ _globalPositionIntMessageAvailable
           /\ Interpreting
           /\ message'.msgid = MAVLINK_MSG_ID_GPS_RAW_INT)
              => _logItems' = _logItems]_vars

\* a GPS_RAW_INT with a 3D fix was just interpreted after a
\* GLOBAL_POSITION_INT, and its position is not that of the last item
C1_Witness ==
    /\ pc = "loop"
    /\ callInterp >= 2
    /\ _globalPositionIntMessageAvailable
    /\ message.msgid = MAVLINK_MSG_ID_GPS_RAW_INT
    /\ message.fix_type >= GPS_FIX_TYPE_3D_FIX
    /\ Len(_logItems) = 1
    /\ DoubleNe(LastItem.lon, Double(message.lat, 10000000))

\* the item a position message is turned into before the append is decided
CandidateLon(m) ==
    IF m.msgid = MAVLINK_MSG_ID_GPS_RAW_INT THEN Double(m.lat, 10000000)
    ELSE Double(m.lon, 10000000)

Candidate(m) ==
    UTM_LogItem(NaN, CandidateLon(m), Double(m.lat, 10000000),
                Double(m.alt, 1000), _lastSpeed)

BuildsCandidate(m) ==
    \/ m.msgid = MAVLINK_MSG_ID_GLOBAL_POSITION_INT
    \/ /\ m.msgid = MAVLINK_MSG_ID_GPS_RAW_INT
       /\ ~_globalPositionIntMessageAvailable
       /\ m.fix_type >= GPS_FIX_TYPE_3D_FIX

\* C2: no two adjacent items of _logItems agree on lon, lat, alt and speed;
\* a step that interprets a position message and builds an item appends it
\* if and only if _logItems is empty or the item differs from the last one
\* in lon, lat, alt or speed (the time is not looked at), and changes
\* _logItems in no other way.
C2_NoAdjacentDuplicates ==
    /\ [](\A i \in 1..(Len(_logItems) - 1) :
             ~SamePositionAndSpeed(_logItems[i], _logItems[i + 1]))
    /\ [][(Interpreting /\ BuildsCandidate(message'))
             => LET appends == \/ Len(_logItems) = 0
                               \/ ~SamePositionAndSpeed(LastItem,
                                                        Candidate(message'))
                IN  /\ appends => /\ Len(_logItems') = Len(_logItems) + 1
                                  /\ SubSeq(_logItems', 1, Len(_logItems))
                                        = _logItems
                                  /\ SamePositionAndSpeed(
                                        _logItems'[Len(_logItems')],
                                        Candidate(message'))
                    /\ ~appends => _logItems' = _logItems]_vars

\* two GLOBAL_POSITION_INT messages with the same fields and different
\* timestamps were interpreted and the track has one item
C2_Witness ==
    /\ pc = "loop"
    /\ nInterp = 2
    /\ callInterp = 2
    /\ firstSampleAt = 1
    /\ ~_gpsRawIntMessageAvailable
    /\ message.msgid = MAVLINK_MSG_ID_GLOBAL_POSITION_INT
    /\ lastTs # firstTs
    /\ Len(_logItems) = 1
    /\ SamePositionAndSpeed(LastItem, Candidate(message))

\* C3: every call of convertTelemetryFile starts with an empty track, no
\* start timestamp, a last speed of zero and no GLOBAL_POSITION_INT seen.
C3_FreshStatePerConvert ==
    nConverts >= 1 =>
        /\ entry._logItems = <<>>
        /\ entry._startDTG = 0
        /\ DoubleIsZero(entry._lastSpeed)
        /\ ~entry._globalPositionIntMessageAvailable

\* C4: a call that returns with an empty track has written nothing, closed
\* the destination and removed it, and returns true; a call that returns
\* with a non-empty track has written the destination and left it in place.
C4_EmptyTrackRemovesDestination ==
    (pc = "idle" /\ result = "true") =>
        /\ ~_utmLogFile.open
        /\ Happened("dstClose")
        /\ IF Len(_logItems) = 0
           THEN /\ ~Happened("dstWrite")
                /\ _utmLogFile.content = <<>>
                /\ HappenedBefore("dstClose", "dstRemove")
                /\ ~_utmLogFile.exists
           ELSE /\ HappenedBefore("dstWrite", "dstClose")
                /\ Len(_utmLogFile.content) > Len(_logItems)
                /\ ~Happened("dstRemove")
                /\ _utmLogFile.exists

\* a conversion that decoded messages returned with an empty track
C4_Witness ==
    /\ pc = "idle"
    /\ result = "true"
    /\ Len(_logItems) = 0
    /\ callInterp >= 1
    /\ Happened("dstRemove")

\* the interpretation state is what it was on entry of the current call
InterpretationUntouched ==
    /\ _logItems = entry._logItems
    /\ _startDTG = entry._startDTG
    /\ _lastSpeed = entry._lastSpeed
    /\ _globalPositionIntMessageAvailable
           = entry._globalPositionIntMessageAvailable

\* C5: a call that fails for want of a channel has opened no file; one that
\* fails on the source has not opened or created the destination; one that
\* fails on the destination has closed the source again; in the three cases
\* nothing was read from the source, no message was interpreted, and the
\* track, start timestamp, last speed and priority flag are as on entry.
C5_FatalErrorsInOrder ==
    (pc = "idle" /\ result = "false") =>
        /\ ~Happened("srcRead")
        /\ callInterp = 0
        /\ InterpretationUntouched
        /\ ~Happened("dstOpen")
        /\ ~_utmLogFile.open
        /\ ~_utmLogFile.exists
        /\ (~call.channel) =>
              (/\ events = <<"reserveFailed">>
               /\ ~_logFile.open)
        /\ (call.channel /\ ~call.srcOk) =>
              (/\ Happened("srcOpenFailed")
               /\ ~Happened("srcOpen")
               /\ ~Happened("dstOpenFailed"))
        /\ (call.channel /\ call.srcOk /\ ~call.dstOk) =>
              (/\ HappenedBefore("srcOpen", "dstOpenFailed")
               /\ HappenedBefore("dstOpenFailed", "srcClose")
               /\ ~_logFile.open)

\* the destination could not be opened in a call made on a converter that
\* already holds a track
C5_Witness ==
    /\ pc = "idle"
    /\ result = "false"
    /\ call.channel
    /\ call.srcOk
    /\ ~call.dstOk
    /\ Len(_logItems) > 0
    /\ Happened("srcClose")

\* C6: a call returns false exactly when no channel was available, the
\* source could not be opened or the destination could not be opened, and
\* true in every other case, whatever was read from the source.
C6_FailureOnlyOnOpenErrors ==
    (pc = "idle" /\ nConverts >= 1) =>
        /\ result \in {"true", "false"}
        /\ result = "false"
              <=> (~call.channel \/ ~call.srcOk \/ ~call.dstOk)

\* a call returned true although a decoded message was dropped and the
\* track stayed empty
C6_Witness ==
    /\ pc = "idle"
    /\ result = "true"
    /\ nDecoded > nInterp
    /\ Len(_logItems) = 0
    /\ ~_utmLogFile.exists

\* C7: the converter reserves at most one channel, not before its first
\* call; while it lives it holds exactly the channel it reserved (none when
\* the reservation failed), the read loop runs only with that channel, and
\* the destructor frees that channel once and nothing else.
C7_OneChannelPerConverter ==
    /\ Len(acquired) <= 1
    /\ nConverts = 0 => acquired = <<>>
    /\ released = (IF pc = "destroyed" THEN acquired ELSE <<>>)
    /\ _mavlinkChannel = (IF pc # "destroyed" /\ acquired # <<>>
                          THEN acquired[1] ELSE 0)
    /\ pc \in {"loop", "write"} => _mavlinkChannel # 0
    /\ \A i \in DOMAIN acquired :
           (acquired[i] \in channelsUsed) <=> pc # "destroyed"
    /\ (pc = "idle" /\ result = "false" /\ ~call.channel)
           => (_mavlinkChannel = 0 /\ acquired = <<>>)

\* the converter was destroyed after a first call that found no channel
\* and a later one that reserved it
C7_Witness ==
    /\ pc = "destroyed"
    /\ nConverts >= 2
    /\ Len(acquired) = 1
    /\ released = acquired
    /\ ~Happened("reserveFailed")
    /\ Happened("reserve")

\* C8: from the first message interpreted in a call on, the start timestamp
\* is the timestamp of that message.
C8_StartTimestampIsFirstTimestamp ==
    callInterp >= 1 => _startDTG = firstTs

\* C9 as stated: the first item of the track has an elapsed time of zero.
C9_FirstItemElapsedZero ==
    Len(_logItems) >= 1 => DoubleIsZero(_logItems[1].time)

\* C9: the first item of the track has an elapsed time of zero when it was
\* produced by the first message the converter interpreted.
C9_FirstItemOfFirstMessageElapsedZero ==
    firstSampleAt = 1 => DoubleIsZero(_logItems[1].time)

\* the first message gave the first item and a later message a second one
\* with another elapsed time
C9_Witness ==
    /\ firstSampleAt = 1
    /\ Len(_logItems) >= 2
    /\ ~DoubleIsZero(_logItems[2].time)
    /\ _startDTG # 0

ElapsedNonDecreasing ==
    \A i \in 1..(Len(_logItems) - 1) :
        DoubleLe(_logItems[i].time, _logItems[i + 1].time)

\* C10 as stated: the elapsed times of the track are non-decreasing.
C10_ElapsedNonDecreasing == ElapsedNonDecreasing

\* C10: the elapsed times of the track are non-decreasing as long as the
\* timestamps of the messages interpreted by the converter were
\* non-decreasing.
C10_ElapsedNonDecreasingForOrderedTimestamps ==
    tsOrdered => ElapsedNonDecreasing

\* ordered timestamps gave two items, the second later than the first
C10_Witness ==
    /\ tsOrdered
    /\ Len(_logItems) >= 2
    /\ ~DoubleLe(_logItems[2].time, _logItems[1].time)

\* _lastSpeed as _handleVfrHud leaves it for a ground speed
SanitizedSpeed(groundspeed) ==
    IF groundspeed.nan THEN Double(0, 1) ELSE groundspeed

\* C12: a step that interprets a VFR_HUD message sets _lastSpeed to the
\* ground speed of the message, zero for a NaN, and leaves _logItems as it
\* was; no other step changes _lastSpeed, so _lastSpeed is the ground speed
\* of the last VFR_HUD interpreted, or zero; and every item a step appends
\* carries the _lastSpeed of the state the step started in.
C12_SpeedFromLastVfrHud ==
    /\ [](~_lastSpeed.nan)
    /\ [][/\ (Interpreting /\ message'.msgid = MAVLINK_MSG_ID_VFR_HUD)
                => /\ _lastSpeed' = SanitizedSpeed(message'.groundspeed)
                   /\ _logItems' = _logItems
          /\ ~(Interpreting /\ message'.msgid = MAVLINK_MSG_ID_VFR_HUD)
                => _lastSpeed' = _lastSpeed
          /\ Len(_logItems') > Len(_logItems)
                => /\ Len(_logItems') = Len(_logItems) + 1
                   /\ _logItems'[Len(_logItems')].speed = _lastSpeed
                   /\ SubSeq(_logItems', 1, Len(_logItems)) = _logItems]_vars

\* a VFR_HUD with ground speed 1 was interpreted after the last position
\* message: the track holds one item, of speed zero
C12_Witness ==
    /\ pc = "loop"
    /\ message.msgid = MAVLINK_MSG_ID_VFR_HUD
    /\ ~DoubleNe(_lastSpeed, Double(1, 1))
    /\ Len(_logItems) = 1
    /\ DoubleIsZero(LastItem.speed)

\* C13: a step that interprets a GPS_RAW_INT message changes _logItems
\* only when no GLOBAL_POSITION_INT was seen and the fix type is at least
\* GPS_FIX_TYPE_3D_FIX; with a lower fix type it never does, not even with
\* an empty track and no GLOBAL_POSITION_INT seen.
C13_GpsRawNeeds3DFix ==
    [][(Interpreting /\ message'.msgid = MAVLINK_MSG_ID_GPS_RAW_INT)
          => \/ _logItems' = _logItems
             \/ /\ ~_globalPositionIntMessageAvailable
                /\ message'.fix_type >= GPS_FIX_TYPE_3D_FIX]_vars

\* a GPS_RAW_INT with a 2D fix was interpreted, no GLOBAL_POSITION_INT was
\* seen and the track is still empty
C13_Witness ==
    /\ pc = "loop"
    /\ callInterp >= 1
    /\ message.msgid = MAVLINK_MSG_ID_GPS_RAW_INT
    /\ message.fix_type < GPS_FIX_TYPE_3D_FIX
    /\ ~_globalPositionIntMessageAvailable
    /\ _gpsRawIntMessageAvailable
    /\ Len(_logItems) = 0

\* C14: when a step that interprets a GPS_RAW_INT message appends an item,
\* the item has lat / 1e7 as its longitude and as its latitude, alt / 1000
\* as its altitude, the elapsed time of the message and the last speed; the
\* lon field of the message is not in it, so the track is the same whatever
\* that field holds.
C14_GpsRawUsesLatitudeTwice ==
    [][(/\ Interpreting
        /\ message'.msgid = MAVLINK_MSG_ID_GPS_RAW_INT
        /\ _logItems' # _logItems)
          => /\ _logItems' = Append(_logItems,
                    UTM_LogItem(
                        Double((_curTimeUSecs - _startDTG') % UInt64Modulus,
                               1000000),
                        Double(message'.lat, 10000000),
                        Double(message'.lat, 10000000),
                        Double(message'.alt, 1000),
                        _lastSpeed))
             /\ \A lon \in 0..ByteBase :
                    _logItems' = _handleGpsRawInt(
                                     [Self EXCEPT
                                         !._startDTG = _startDTG',
                                         !._curTimeUSecs = _curTimeUSecs],
                                     [message' EXCEPT !.lon = lon])._logItems
       ]_vars

\* a GPS_RAW_INT with a 3D fix and a longitude other than its latitude was
\* interpreted and its item is the only one of the track
C14_Witness ==
    /\ pc = "loop"
    /\ callInterp >= 1
    /\ message.msgid = MAVLINK_MSG_ID_GPS_RAW_INT
    /\ message.fix_type >= GPS_FIX_TYPE_3D_FIX
    /\ message.lon # message.lat
    /\ ~_globalPositionIntMessageAvailable
    /\ Len(_logItems) = 1
    /\ LastItem.lon = Double(message.lat, 10000000)
    /\ LastItem.lat = Double(message.lat, 10000000)

\* C16: after a call that returns true with a non-empty track the
\* destination holds the header, then one line per item of _logItems in
\* the order of _logItems, each but the last followed by a comma, then the
\* keys, the logging start line made from _startDTG, and the footer as the
\* last write; the item lines are as many as the items.
C16_DestinationLayout ==
    (pc = "idle" /\ result = "true" /\ Len(_logItems) > 0) =>
        LET n       == Len(_logItems)
            content == _utmLogFile.content
        IN  /\ Len(content) = n + 4
            /\ content[1].kind = "kLoggingHeader"
            /\ \A i \in 1..n :
                   /\ content[i + 1].kind = "item"
                   /\ content[i + 1].item = _logItems[i]
                   /\ content[i + 1].sep = (IF i < n THEN ",\n" ELSE "\n")
            /\ Cardinality({i \in 1..Len(content) :
                               content[i].kind = "item"}) = n
            /\ content[n + 2].kind = "kLoggingKeys"
            /\ content[n + 3].kind = "logging_start_dtg"
            /\ content[n + 3].ms = _startDTG \div 1000
            /\ content[n + 4].kind = "kLoggingFooter"

\* a call returned true with a track of two items and the destination in
\* place
C16_Witness ==
    /\ pc = "idle"
    /\ result = "true"
    /\ Len(_logItems) = 2
    /\ _utmLogFile.exists
    /\ ~_utmLogFile.open
    /\ Len(_utmLogFile.content) = 6

OtherKind(m) ==
    /\ m.msgid # MAVLINK_MSG_ID_GPS_RAW_INT
    /\ m.msgid # MAVLINK_MSG_ID_GLOBAL_POSITION_INT
    /\ m.msgid # MAVLINK_MSG_ID_VFR_HUD

\* C18: a step that interprets a message that is neither GPS_RAW_INT nor
\* GLOBAL_POSITION_INT nor VFR_HUD leaves _logItems, _lastSpeed and the two
\* message-available flags as they were; _startDTG becomes the timestamp
\* of the message when it was 0 and is left alone otherwise.
C18_OtherMessagesOnlyTouchTime ==
    [][(Interpreting /\ OtherKind(message'))
          => /\ _logItems' = _logItems
             /\ _lastSpeed' = _lastSpeed
             /\ _globalPositionIntMessageAvailable'
                    = _globalPositionIntMessageAvailable
             /\ _gpsRawIntMessageAvailable' = _gpsRawIntMessageAvailable
             /\ _startDTG' = (IF _startDTG = 0 THEN _curTimeUSecs
                              ELSE _startDTG)]_vars

\* a message of another kind was interpreted after a VFR_HUD message had
\* set a speed other than zero, and as the first message of a log whose
\* first timestamp became the start timestamp
C18_Witness ==
    /\ pc = "loop"
    /\ callInterp >= 2
    /\ OtherKind(message)
    /\ message.msgid >= 0
    /\ ~DoubleIsZero(_lastSpeed)
    /\ _startDTG # 0

\* C20: whenever convertTelemetryFile has returned, with false or with
\* true, neither _logFile nor the destination file is open.
C20_NoFileLeftOpen ==
    (pc = "idle" /\ nConverts >= 1) =>
        /\ ~_logFile.open
        /\ ~_utmLogFile.open

\* the value of a sequence of n digits of base ByteBase, the first digit
\* the most significant
RECURSIVE PositionalValue(_, _)
PositionalValue(digits, n) ==
    IF n = 0 THEN 0
    ELSE digits[n] + ByteBase * PositionalValue(digits, n - 1)

Reversed(bytes) == [i \in 1..TIMESTAMP_SIZE |-> bytes[TIMESTAMP_SIZE + 1 - i]]

\* C15: for every array of TIMESTAMP_SIZE bytes and every current time,
\* _parseTimestamp returns the big-endian value t of the bytes when t is
\* at most the current time and the value of the bytes in reverse order
\* when t is greater; reversing the bytes of t twice gives t again.
C15_ParseTimestampChoosesByteOrder ==
    parse.done =>
        LET t        == PositionalValue(parse.bytes, TIMESTAMP_SIZE)
            reversed == PositionalValue(Reversed(parse.bytes), TIMESTAMP_SIZE)
        IN  /\ parse.value = (IF t <= parse.now THEN t ELSE reversed)
            /\ qbswap(t) = reversed
            /\ qbswap(qbswap(t)) = t

\* the big-endian value was greater than the current time, the reversed
\* value was returned, differs from it and is greater than the current
\* time as well
C15_Witness ==
    /\ parse.done
    /\ PositionalValue(parse.bytes, TIMESTAMP_SIZE) > parse.now
    /\ parse.value # PositionalValue(parse.bytes, TIMESTAMP_SIZE)
    /\ parse.value > parse.now
    /\ parse.now > 0

\* the elements of the file that hold a message, in file order
MessagePositions(file) ==
    SelectSeq([i \in 1..Len(file) |-> i],
              LAMBDA i : file[i].kind = "message")

\* C11: when the read loop is left, the messages passed to
\* _newMavlinkMessage in the call are the messages of the source, each
\* once and in file order, and the source has been read to its end.
C11_EveryCompleteMessageInterpreted ==
    pc = "write" =>
        /\ [i \in 1..Len(interpreted) |-> interpreted[i].pos]
               = MessagePositions(srcFile)
        /\ srcPos > Len(srcFile)

\* C17: every message is interpreted with the timestamp of the element
\* right before it in the file, and no timestamp is fed to
\* mavlink_parse_char.
C17_TimestampPrecedingInFile ==
    /\ ~tsFed
    /\ \A i \in 1..Len(interpreted) :
           LET p == interpreted[i].pos
           IN  /\ p > 1
               /\ srcFile[p - 1].kind = "timestamp"
               /\ \E currentTimestamp \in CurrentTimestamps :
                      interpreted[i].ts
                          = _parseTimestamp(srcFile[p - 1].raw,
                                            currentTimestamp)

\* C19: a turn of the read loop that stays in the loop has moved the
\* position in the source forward and any other turn goes on to the write
\* phase; the position never passes the end of the source; the destination
\* receives at most four writes more than the track has items; and a call
\* that has opened both files returns true with the destination closed.
C19_ConvertTerminates ==
    /\ [][pc = "loop" => \/ pc' = "loop" /\ srcPos' > srcPos
                         \/ pc' = "write"]_vars
    /\ [](srcPos <= Len(srcFile) + 1)
    /\ [](Len(_utmLogFile.content) <= Len(_logItems) + 4)
    /\ (pc = "loop") ~> (pc = "idle" /\ result = "true"
                            /\ ~_utmLogFile.open)

\* a call on a source of two records and a last timestamp has returned
\* true after two turns of the read loop that interpreted a message
C19_Witness ==
    /\ pc = "idle"
    /\ result = "true"
    /\ ~_utmLogFile.open
    /\ Len(srcFile) = 2 * MaxRecords + 1
    /\ srcPos = Len(srcFile) + 1
    /\ Len(interpreted) = 2

====
